---- MODULE Spec2Model ----
(***************************************************************************)
(* Battery remote-control session manager of ha-solarman                   *)
(* (custom_components/solarman/battery_control.py) as a state machine.     *)
(*                                                                         *)
(* The manager runs on an asyncio event loop: a coroutine runs without     *)
(* interruption until it awaits the device (device.execute) or a sleep.    *)
(* Every action below is one such uninterrupted run: it resumes one task   *)
(* from the await it is suspended at and carries it to its next await or   *)
(* to its return.  Time is counted in minutes.                             *)
(***************************************************************************)
EXTENDS Integers, Sequences, FiniteSets, TLC

\* ---------------------------------------------------------------- bounds
MaxCalls == 3          \* Start/Stop invocations in one behaviour
MaxTime == 9           \* last minute the clock reaches
MaxDuration == 9       \* the duration_minutes the callers ask for

\* ------------------------------------------------------- program constants
REG_REMOTE_MODE == 1100     \* 0x044C
REG_WATCHDOG == 1101        \* 0x044D
REG_BATTERY_SIDE == 1104    \* 0x0450
REG_POWER_PRIORITY == 1105  \* 0x0451
REG_BATTERY_POWER == 1109   \* 0x0455
WATCHDOG_SECONDS == 300     \* value written to 0x044D
DEFAULT_RATED_POWER == 20000
MAX_PERCENTAGE == 1200      \* clamp limit, 0.1 % units
WatchdogPeriod == 4         \* asyncio.sleep(240), in minutes
NoTime == -1                \* control_end_time = None

NoTask == <<"none", 0>>     \* watchdog_task = None
NotWritten == -1            \* no write to a register was issued yet
NoReading == <<>>           \* coordinator.data has no rated-power entry

POWER_ENTITY == "Manual Battery Power"
ACTIVE_ENTITY == "Manual Control Active"
EntityNames == {POWER_ENTITY, ACTIVE_ENTITY}

Callers == {<<"caller", 1>>, <<"caller", 2>>}
Sessions == 1..MaxCalls
Watchdogs == {<<"wd", s>> : s \in Sessions}
AutoStops == {<<"auto", s>> : s \in Sessions}
Services == {<<"svc", 1>>}           \* invocations of the battery_control service
ServiceStops == {<<"svcstop", 1>>}   \* the stop_control task each of them creates
Timers == Watchdogs \cup AutoStops \cup ServiceStops
Procs == Callers \cup Timers \cup Services

Durations == {MaxDuration}   \* long enough for the watchdog to wake twice
PowerInputs == {5015}
RatedReadings == {NoReading, <<0>>}   \* coordinator.data.get(...)
ServiceDurations == {5}   \* duration_minutes of the service: its stop falls inside a session

VARIABLES
    control_active,     \* BatteryControlManager.control_active
    control_end_time,   \* BatteryControlManager.control_end_time (minute or NoTime)
    watchdog_task,      \* BatteryControlManager.watchdog_task (a Watchdogs id or NoTask)
    virtual_entities,   \* BatteryControlManager.virtual_entities: name -> _virtual_value
    task,               \* every coroutine's position and locals
    now,                \* datetime.now(), in minutes
    ncalls,             \* invocations of start/stop_battery_control so far
    remote_mode,        \* the value last written to register 0x044C (or NotWritten)
    stopped,            \* history: a Stop of an Active session returned, no Start since
    out                 \* history: the calls and returns of the last step

vars == <<control_active, control_end_time, watchdog_task, virtual_entities,
          task, now, ncalls, remote_mode, stopped, out>>

\* ------------------------------------------------------------ arithmetic
Abs(x) == IF x < 0 THEN -x ELSE x

\* int(): truncation toward zero of the quotient a / b  (b # 0)
TruncDiv(a, b) ==
    IF (a >= 0) = (b > 0) THEN Abs(a) \div Abs(b) ELSE -(Abs(a) \div Abs(b))

\* max(-1200, min(1200, x))
Clamp(x) ==
    IF x > MAX_PERCENTAGE THEN MAX_PERCENTAGE
    ELSE IF x < -MAX_PERCENTAGE THEN -MAX_PERCENTAGE ELSE x

\* rated_power_data[0] if rated_power_data else 20000
rated_power(rated_power_data) ==
    IF rated_power_data # <<>> THEN rated_power_data[1] ELSE DEFAULT_RATED_POWER

\* int((power_watts / rated_power) * 1000), then clamped
power_percentage(power_watts, rated) ==
    Clamp(TruncDiv(power_watts * 1000, rated))

\* the five setup writes of start_battery_control, in order
registers(pct) ==
    << <<REG_REMOTE_MODE, 1>>, <<REG_BATTERY_SIDE, 1>>, <<REG_POWER_PRIORITY, 2>>,
       <<REG_WATCHDOG, WATCHDOG_SECONDS>>, <<REG_BATTERY_POWER, pct>> >>

\* the two reset writes of stop_battery_control, in order
reset_registers ==
    << <<REG_REMOTE_MODE, 0>>, <<REG_BATTERY_POWER, 0>> >>

\* the five writes of the battery_control service, in order
service_registers(pct) ==
    << <<REG_REMOTE_MODE, 1>>, <<REG_BATTERY_SIDE, 1>>, <<REG_POWER_PRIORITY, 2>>,
       <<REG_WATCHDOG, WATCHDOG_SECONDS>>, <<REG_BATTERY_POWER, pct>> >>

\* the two writes of the service's stop_control, in order
service_reset_registers ==
    << <<REG_REMOTE_MODE, 0>>, <<REG_BATTERY_POWER, 0>> >>

\* ------------------------------------------------------------ task records
\* pc: where the coroutine is suspended; k: the write it awaits; ctx: who called
\* stop_battery_control; pw, dur, rdata, rated, pct: the locals of start_battery_control;
\* wake: when its sleep ends; err: the exception start_battery_control caught
\* ("write": a setup write failed, "div": ZeroDivisionError) or _watchdog_ping
\* caught ("ping": the refresh write failed).
\* History kept with the task: others (the register writes of other Start and Stop
\* invocations since this one's first write: "none", "after" this one's latest write,
\* or "between" two writes of this one), sess (the session a Stop sequence began
\* on), clean (no Start ran while this Stop did).
Blank(pc) ==
    [pc |-> pc, k |-> 0, ctx |-> "none", op |-> "none", pw |-> 0, dur |-> 0,
     rdata |-> NoReading, rated |-> 0, pct |-> 0, wake |-> 0, err |-> "none",
     others |-> "none", sess |-> 0, clean |-> FALSE]

\* The world a coroutine reads and writes while it runs.
World ==
    [active |-> control_active, endt |-> control_end_time, wtask |-> watchdog_task,
     ents |-> virtual_entities, task |-> task, mode |-> remote_mode,
     stopped |-> stopped, out |-> <<>>, rdata |-> NoReading, fault |-> "none"]

\* the world when coordinator.data holds this rated-power reading
WorldWith(reading) == [World EXCEPT !.rdata = reading]

Commit(W) ==
    /\ control_active' = W.active
    /\ control_end_time' = W.endt
    /\ watchdog_task' = W.wtask
    /\ virtual_entities' = W.ents
    /\ task' = W.task
    /\ remote_mode' = W.mode
    /\ stopped' = W.stopped
    /\ out' = W.out

\* the session that is open, or was last open: the one whose watchdog the manager holds
CurrentSession(W) == W.wtask[2]

\* sessions are numbered in the order they are opened
NextSession(W) == 1 + Cardinality({s \in Sessions : W.task[<<"wd", s>>].pc # "unborn"})

Emit(W, e) == [W EXCEPT !.out = Append(@, e)]

InBody(t) == t.pc \in {"stop_w", "set_w"}

\* await self.coordinator.device.execute(0x10, address, data=[value]): the write
\* goes out and the coroutine is suspended until the device answers
Execute(W, p, pc, k, reg) ==
    LET t == W.task[p]
        body == pc \in {"set_w", "stop_w"}   \* a write of a Start or Stop invocation
    IN [W EXCEPT !.mode = IF reg[1] = REG_REMOTE_MODE THEN reg[2] ELSE @,
                 !.task = [q \in Procs |->
            IF q = p
            THEN [t EXCEPT !.pc = pc, !.k = k,
                           !.others = IF body /\ @ = "after" THEN "between" ELSE @]
            ELSE IF body /\ InBody(W.task[q]) /\ W.task[q].others = "none"
            THEN [W.task[q] EXCEPT !.others = "after"]
            ELSE W.task[q]]]

\* the register write a suspended task has issued and awaits the answer to
Awaited(t) ==
    CASE t.pc = "set_w" -> registers(t.pct)[t.k]
      [] t.pc = "stop_w" -> reset_registers[t.k]
      [] t.pc = "ping_w" -> <<REG_REMOTE_MODE, 1>>
      [] t.pc = "svc_w" -> service_registers(t.pct)[t.k]
      [] t.pc = "svcstop_w" -> service_reset_registers[t.k]
      [] OTHER -> <<0, 0>>

\* the coroutine called by a caller returns (normally or by raising)
Return(W, p, outcome) ==
    LET t == W.task[p]
        W1 == Emit(W, [k |-> "ret", p |-> p, op |-> t.op, o |-> outcome,
                       ctx |-> t.ctx, err |-> t.err, others |-> t.others,
                       dur |-> t.dur,
                       resets |-> IF t.ctx = "exc" /\ t.pc = "stop_w" THEN t.k ELSE 0,
                       fault |-> W.fault])
    IN [W1 EXCEPT !.task[p] = Blank("idle"),
                  !.stopped = IF t.op = "Stop" THEN t.ctx = "top" /\ t.clean ELSE @]

Called(W, p, op) ==
    Emit(W, [k |-> "call", p |-> p, op |-> op, active |-> W.active, after |-> W.stopped])

\* an exception is caught and logged
Failed(W, what) == [W EXCEPT !.fault = what]

\* ------------------------------------------------------ coroutine bodies
RECURSIVE stop_enter(_, _, _), stop_return(_, _, _), start_try(_, _), start_except(_, _, _)

\* self.watchdog_task.cancel(), guarded by "if self.watchdog_task": a task that is
\* cancelled runs no further statement of _watchdog_ping (CancelledError -> break)
cancel_watchdog(W) ==
    IF W.wtask = NoTask \/ W.task[W.wtask].pc \in {"done", "cancelled"}
    THEN W
    ELSE [W EXCEPT !.task[W.wtask] = Blank("cancelled")]

\* stop_battery_control, lines 87-91: reset the two indicators that are registered.
\* raises = the entity whose set_virtual_value raises ("none" when neither does);
\* set_virtual_value stores the value before async_write_ha_state can raise.
reset_entities(W, p, raises) ==
    LET hasP == POWER_ENTITY \in DOMAIN W.ents
        hasA == ACTIVE_ENTITY \in DOMAIN W.ents
        W1 == IF hasP THEN [W EXCEPT !.ents[POWER_ENTITY] = 0] ELSE W
        W2 == IF hasA THEN [W1 EXCEPT !.ents[ACTIVE_ENTITY] = FALSE] ELSE W1
    IN  IF hasP /\ raises = POWER_ENTITY THEN Failed(W1, "entity")
        ELSE IF hasA /\ raises = ACTIVE_ENTITY THEN Failed(W2, "entity")
        ELSE W2

\* stop_battery_control without the guard of lines 66-67
stop_enter_unguarded(W, p, ctx) ==
    Execute([cancel_watchdog(W) EXCEPT !.task[p].ctx = ctx,
                                       !.task[p].sess = CurrentSession(W)],
            p, "stop_w", 1, reset_registers[1])

\* stop_battery_control, lines 66-81: the guard, the cancel, the first reset write
stop_enter(W, p, ctx) ==
    IF ~W.active
    THEN stop_return(W, p, ctx)
    ELSE Execute([cancel_watchdog(W) EXCEPT !.task[p].ctx = ctx,
                                            !.task[p].sess = CurrentSession(W)],
                 p, "stop_w", 1, reset_registers[1])

\* stop_battery_control without the except clause of lines 95-96: a failed reset
\* write or indicator update is raised to the caller
stop_resume_raising(W, p, ok, raises) ==
    LET k == W.task[p].k
        ctx == W.task[p].ctx
        W1 == reset_entities([W EXCEPT !.active = FALSE, !.endt = NoTime], p, raises)
    IN  IF ~ok
        THEN Return(Failed(W, "reset"), p, "error")
        ELSE IF k < Len(reset_registers)
        THEN Execute(W, p, "stop_w", k + 1, reset_registers[k + 1])
        ELSE IF W1.fault = "entity"
        THEN Return(W1, p, "error")
        ELSE stop_return(W1, p, ctx)

\* stop_battery_control, lines 80-96: the device answered reset write k
stop_resume(W, p, ok, raises) ==
    LET k == W.task[p].k
        ctx == W.task[p].ctx
    IN  IF ~ok
        THEN \* except Exception: logged, the state is left as it is
             stop_return(Failed(W, "reset"), p, ctx)
        ELSE IF k < Len(reset_registers)
        THEN Execute(W, p, "stop_w", k + 1, reset_registers[k + 1])
        ELSE stop_return(
                 reset_entities([W EXCEPT !.active = FALSE, !.endt = NoTime], p, raises),
                 p, ctx)

\* stop_battery_control returning into an except branch that lacks the raise of
\* line 62
stop_return_swallowing(W, p, ctx) ==
    CASE ctx = "top" -> Return(W, p, "ok")
      [] ctx = "pre" -> start_try(W, p)
      [] ctx = "exc" -> Return(W, p, "ok")
      [] ctx = "auto" -> [W EXCEPT !.task[p] = Blank("done")]

\* where stop_battery_control returns to
stop_return(W, p, ctx) ==
    CASE ctx = "top" -> Return(W, p, "ok")
      [] ctx = "pre" -> start_try(W, p)
      [] ctx = "exc" -> Return(W, p, "error")
      [] ctx = "auto" -> [W EXCEPT !.task[p] = Blank("done")]

\* start_battery_control, lines 26-45: the percentage and the first setup write
start_try(W, p) ==
    LET t == W.task[p]
        rated == rated_power(W.rdata)
    IN  IF rated = 0
        THEN \* ZeroDivisionError
             start_except(Failed(W, "div"), p, "div")
        ELSE LET pct == power_percentage(t.pw, rated)
             IN Execute([W EXCEPT !.task[p].rdata = W.rdata,
                                  !.task[p].rated = rated, !.task[p].pct = pct],
                        p, "set_w", 1, registers(pct)[1])

\* start_battery_control, lines 47-57: the session opens and its two timers are created
open_session(W, p) ==
    LET t == W.task[p]
        s == NextSession(W)
    IN [W EXCEPT !.active = TRUE,
                 !.endt = now + t.dur,
                 !.wtask = <<"wd", s>>,
                 !.task[<<"wd", s>>] = Blank("new"),
                 !.task[<<"auto", s>>] = [Blank("new") EXCEPT !.dur = t.dur]]

\* start_battery_control, lines 44-57: the device answered setup write k
start_resume(W, p, ok) ==
    LET t == W.task[p]
        regs == registers(t.pct)
    IN  IF ~ok
        THEN start_except(Failed(W, "setup"), p, "write")
        ELSE IF t.k < Len(regs)
        THEN Execute(W, p, "set_w", t.k + 1, regs[t.k + 1])
        ELSE Return(open_session(W, p), p, "ok")

\* start_battery_control, lines 59-62: log, stop, re-raise
start_except(W, p, e) ==
    stop_enter([W EXCEPT !.task[p].err = e, !.task[p].pw = 0, !.task[p].dur = 0,
                         !.task[p].rated = 0, !.task[p].pct = 0], p, "exc")

\* start_battery_control, from the call to its first await or its return
start_battery_control(W, p, power_watts, duration_minutes) ==
    LET mine == [Blank("run") EXCEPT !.op = "Start", !.pw = power_watts,
                     !.dur = duration_minutes]
        W0 == [W EXCEPT !.stopped = FALSE,
                        !.task = [q \in Procs |->
                            IF q = p THEN mine ELSE [W.task[q] EXCEPT !.clean = FALSE]]]
        W1 == Called(W0, p, "Start")
    IN  IF W.active THEN stop_enter(W1, p, "pre") ELSE start_try(W1, p)

\* stop_battery_control, from the call to its first await or its return
stop_battery_control(W, p) ==
    LET mine == [Blank("run") EXCEPT !.op = "Stop",
                     !.clean = \A q \in Callers : W.task[q].op # "Start"]
        W1 == Called([W EXCEPT !.task[p] = mine], p, "Stop")
    IN  stop_enter(W1, p, "top")

\* _watchdog_ping, line 100: the loop test, then asyncio.sleep(240) or the end
watchdog_loop(W, p) ==
    IF W.active /\ now < W.endt
    THEN [W EXCEPT !.task[p].pc = "sleep", !.task[p].wake = now + WatchdogPeriod]
    ELSE [W EXCEPT !.task[p] = Blank("done")]

\* _watchdog_ping, first run; a task cancelled before it first ran never runs
watchdog_first(W, p) ==
    IF W.task[p].pc = "new" THEN watchdog_loop(W, p) ELSE W

\* _watchdog_ping running the setup sequence again at each tick instead of the
\* single refresh write
watchdog_wake_resetup(W, p) ==
    IF W.active
    THEN Execute(W, p, "set_w", 1, registers(0)[1])
    ELSE watchdog_loop(W, p)

\* _watchdog_ping, lines 102-105: the sleep is over
watchdog_wake(W, p) ==
    IF W.active
    THEN Execute(W, p, "ping_w", 1, <<REG_REMOTE_MODE, 1>>)
    ELSE watchdog_loop(W, p)

\* _watchdog_ping with the try around the loop: a failed refresh ends the loop
watchdog_resume_breaking(W, p, ok) ==
    IF ok
    THEN watchdog_loop([W EXCEPT !.task[p].err = "none"], p)
    ELSE Failed([W EXCEPT !.task[p] = Blank("done")], "ping")

\* _watchdog_ping, lines 105-110: the device answered the refresh write; err
\* remembers, until the next answer, that the refresh failed ("ping")
watchdog_resume(W, p, ok) ==
    watchdog_loop(IF ok THEN [W EXCEPT !.task[p].err = "none"]
                        ELSE Failed([W EXCEPT !.task[p].err = "ping"], "ping"), p)

\* _auto_stop, line 114: asyncio.sleep(duration_minutes * 60)
auto_stop_sleep(W, p) ==
    [W EXCEPT !.task[p].pc = "sleep", !.task[p].wake = now + W.task[p].dur]

\* _auto_stop, lines 115-116: the sleep is over
auto_stop_wake(W, p) ==
    IF W.active
    THEN stop_enter([W EXCEPT !.task[p].dur = 0], p, "auto")
    ELSE [W EXCEPT !.task[p] = Blank("done")]

\* services.py, _battery_control, lines 67-84: the percentage and the first write;
\* a ZeroDivisionError leaves as ServiceValidationError
battery_control(W, v, power_watts, duration_minutes) ==
    LET rated == rated_power(W.rdata)
    IN  IF rated = 0
        THEN Failed([W EXCEPT !.task[v] = Blank("done")], "div")
        ELSE LET pct == power_percentage(power_watts, rated)
                 t == [Blank("svc_w") EXCEPT !.pw = power_watts,
                                             !.dur = duration_minutes,
                                             !.rdata = W.rdata,
                                             !.rated = rated, !.pct = pct]
             IN Execute([W EXCEPT !.task[v] = t], v, "svc_w", 1,
                        service_registers(pct)[1])

\* services.py, _battery_control, lines 84-105: the device answered write k; after
\* the fifth, stop_control is created as a task of its own
battery_control_resume(W, v, ok) ==
    LET t == W.task[v]
        x == <<"svcstop", v[2]>>
    IN  IF ~ok
        THEN Failed([W EXCEPT !.task[v] = Blank("done")], "service")
        ELSE IF t.k < Len(service_registers(t.pct))
        THEN Execute(W, v, "svc_w", t.k + 1, service_registers(t.pct)[t.k + 1])
        ELSE [W EXCEPT !.task[v] = Blank("done"),
                       !.task[x] = [Blank("new") EXCEPT !.dur = t.dur]]

\* services.py, stop_control, line 94: asyncio.sleep(duration_minutes * 60)
stop_control_sleep(W, x) ==
    [W EXCEPT !.task[x].pc = "sleep", !.task[x].wake = now + W.task[x].dur]

\* services.py, stop_control, lines 95-96: the sleep is over, the first write
\* goes out whatever the manager's session is
stop_control_wake(W, x) ==
    Execute(W, x, "svcstop_w", 1, service_reset_registers[1])

\* services.py, stop_control, lines 96-100: the device answered write k
stop_control_resume(W, x, ok) ==
    LET t == W.task[x]
    IN  IF ~ok
        THEN Failed([W EXCEPT !.task[x] = Blank("done")], "service")
        ELSE IF t.k < Len(service_reset_registers)
        THEN Execute(W, x, "svcstop_w", t.k + 1, service_reset_registers[t.k + 1])
        ELSE [W EXCEPT !.task[x] = Blank("done")]

\* ------------------------------------------------------------------ actions
Init ==
    /\ control_active = FALSE
    /\ control_end_time = NoTime
    /\ watchdog_task = NoTask
    /\ virtual_entities \in
         {[n \in S |-> IF n = POWER_ENTITY THEN 0 ELSE FALSE] : S \in SUBSET EntityNames}
    /\ task = [p \in Procs |-> IF p \in Callers THEN Blank("idle") ELSE Blank("unborn")]
    /\ now = 0
    /\ ncalls = 0
    /\ remote_mode = NotWritten
    /\ stopped = FALSE
    /\ out = <<>>

\* Callers are interchangeable: an invocation takes the first one that is free.
FirstFree(c) == \A d \in Callers : d[2] < c[2] => task[d].pc # "idle"

\* a caller invokes start_battery_control(power_watts, duration_minutes); the
\* reading is the one coordinator.data holds if the call reaches line 28 at once
StartWith(c, powers, readings) ==
    /\ task[c].pc = "idle"
    /\ FirstFree(c)
    /\ ncalls < MaxCalls
    /\ \E pw \in powers, dur \in Durations,
          rd \in (IF control_active THEN {NoReading} ELSE readings) :
           Commit(start_battery_control(WorldWith(rd), c, pw, dur))
    /\ ncalls' = ncalls + 1
    /\ UNCHANGED now

Start(c) == StartWith(c, PowerInputs, RatedReadings)

\* a caller invokes stop_battery_control()
Stop(c) ==
    /\ task[c].pc = "idle"
    /\ FirstFree(c)
    /\ ncalls < MaxCalls
    /\ Commit(stop_battery_control(World, c))
    /\ ncalls' = ncalls + 1
    /\ UNCHANGED now

\* the device answers a setup write of start_battery_control (or the write fails)
SetupWriteDone(c) ==
    /\ task[c].pc = "set_w"
    /\ \E ok \in BOOLEAN : Commit(start_resume(World, c, ok))
    /\ UNCHANGED <<now, ncalls>>

\* the device answers a reset write of stop_battery_control (or the write fails)
ResetWriteDone(p) ==
    /\ task[p].pc = "stop_w"
    /\ \E ok \in BOOLEAN :
       \E raises \in (IF ok /\ task[p].k = Len(reset_registers)
                      THEN {"none"} \cup DOMAIN virtual_entities ELSE {"none"}),
          rd \in (IF task[p].ctx = "pre" THEN RatedReadings ELSE {NoReading}) :
           Commit(stop_resume(WorldWith(rd), p, ok, raises))
    /\ UNCHANGED <<now, ncalls>>

\* the two tasks created by a Start run for the first time: create_task queued them
\* one behind the other, so nothing runs between the two
TimersStart(s) ==
    /\ task[<<"wd", s>>].pc = "new" \/ task[<<"auto", s>>].pc = "new"
    /\ Commit(auto_stop_sleep(watchdog_first(World, <<"wd", s>>), <<"auto", s>>))
    /\ UNCHANGED <<now, ncalls>>

\* the watchdog's sleep is over
WatchdogWake(w) ==
    /\ task[w].pc = "sleep"
    /\ task[w].wake <= now
    /\ Commit(watchdog_wake(World, w))
    /\ UNCHANGED <<now, ncalls>>

\* the device answers the watchdog's refresh write (or the write fails)
WatchdogWriteDone(w) ==
    /\ task[w].pc = "ping_w"
    /\ \E ok \in BOOLEAN : Commit(watchdog_resume(World, w, ok))
    /\ UNCHANGED <<now, ncalls>>

\* the deadline elapses
AutoStopWake(a) ==
    /\ task[a].pc = "sleep"
    /\ task[a].wake <= now
    /\ Commit(auto_stop_wake(World, a))
    /\ UNCHANGED <<now, ncalls>>

\* the battery_control service is called (services.py, _battery_control)
BatteryControlService(v) ==
    /\ task[v].pc = "unborn"
    /\ \E pw \in PowerInputs, dur \in ServiceDurations, rd \in RatedReadings :
           Commit(battery_control(WorldWith(rd), v, pw, dur))
    /\ UNCHANGED <<now, ncalls>>

\* the device answers a write of the service (or the write fails)
ServiceWriteDone(v) ==
    /\ task[v].pc = "svc_w"
    /\ \E ok \in BOOLEAN : Commit(battery_control_resume(World, v, ok))
    /\ UNCHANGED <<now, ncalls>>

\* the service's stop_control task runs for the first time
ServiceStopStart(x) ==
    /\ task[x].pc = "new"
    /\ Commit(stop_control_sleep(World, x))
    /\ UNCHANGED <<now, ncalls>>

\* the service's sleep is over
ServiceStopWake(x) ==
    /\ task[x].pc = "sleep"
    /\ task[x].wake <= now
    /\ Commit(stop_control_wake(World, x))
    /\ UNCHANGED <<now, ncalls>>

\* the device answers a write of stop_control (or the write fails)
ServiceStopWriteDone(x) ==
    /\ task[x].pc = "svcstop_w"
    /\ \E ok \in BOOLEAN : Commit(stop_control_resume(World, x, ok))
    /\ UNCHANGED <<now, ncalls>>

\* SolarmanVirtualEntity.set_virtual_value, called by the hosting layer
\* (async_set_native_value, async_turn_on) on a registered entity; the cells are
\* set before the first call of the manager
set_virtual_value(name) ==
    /\ name \in DOMAIN virtual_entities
    /\ ncalls = 0
    /\ \E v \in (IF name = POWER_ENTITY THEN PowerInputs ELSE {TRUE}) :
           /\ virtual_entities[name] # v
           /\ virtual_entities' = [virtual_entities EXCEPT ![name] = v]
    /\ out' = <<>>
    /\ UNCHANGED <<control_active, control_end_time, watchdog_task, task, now, ncalls,
                   remote_mode, stopped>>

\* Time passes until the next sleep is over; tasks that are ready to run go first.
\* (What the manager does depends on the clock only through the order of its timers
\* and through now + duration, so the clock is moved from one timer to the next.)
Sleeping == {p \in Timers : task[p].pc = "sleep"}

Tick ==
    /\ \A p \in Timers : task[p].pc # "new"
    /\ \E p \in Sleeping :
           /\ \A q \in Sleeping : task[p].wake <= task[q].wake
           /\ now < task[p].wake
           /\ task[p].wake <= MaxTime
           /\ now' = task[p].wake
    /\ out' = <<>>
    /\ UNCHANGED <<control_active, control_end_time, watchdog_task, virtual_entities,
                   task, ncalls, remote_mode, stopped>>

Next ==
    \/ \E c \in Callers : Start(c)
    \/ \E c \in Callers : Stop(c)
    \/ \E c \in Callers : SetupWriteDone(c)
    \/ \E p \in Callers \cup AutoStops : ResetWriteDone(p)
    \/ \E s \in Sessions : TimersStart(s)
    \/ \E w \in Watchdogs : WatchdogWake(w)
    \/ \E w \in Watchdogs : WatchdogWriteDone(w)
    \/ \E a \in AutoStops : AutoStopWake(a)
    \/ \E name \in EntityNames : set_virtual_value(name)
    \/ Tick

Spec == Init /\ [][Next]_vars

\* One caller: an invocation begins only when the one before has returned.
\* (The timer tasks of the sessions still run concurrently with the caller.)
First == <<"caller", 1>>

NextSerial ==
    \/ Start(First)
    \/ Stop(First)
    \/ SetupWriteDone(First)
    \/ \E p \in {First} \cup AutoStops : ResetWriteDone(p)
    \/ \E s \in Sessions : TimersStart(s)
    \/ \E w \in Watchdogs : WatchdogWake(w)
    \/ \E w \in Watchdogs : WatchdogWriteDone(w)
    \/ \E a \in AutoStops : AutoStopWake(a)
    \/ \E name \in EntityNames : set_virtual_value(name)
    \/ Tick

SpecSerial == Init /\ [][NextSerial]_vars

\* The manager, called by one caller, next to the battery_control service.
NextService ==
    \/ Start(First)
    \/ SetupWriteDone(First)
    \/ \E p \in {First} \cup AutoStops : ResetWriteDone(p)
    \/ \E s \in Sessions : TimersStart(s)
    \/ \E w \in Watchdogs : WatchdogWake(w)
    \/ \E w \in Watchdogs : WatchdogWriteDone(w)
    \/ \E a \in AutoStops : AutoStopWake(a)
    \/ \E v \in Services : BatteryControlService(v)
    \/ \E v \in Services : ServiceWriteDone(v)
    \/ \E x \in ServiceStops : ServiceStopStart(x)
    \/ \E x \in ServiceStops : ServiceStopWake(x)
    \/ \E x \in ServiceStops : ServiceStopWriteDone(x)
    \/ Tick

SpecService == Init /\ [][NextService]_vars

\* ------------------------------------------------ the percentage computation
\* Inputs of the computation alone.  On each of these pairs the double-precision
\* value of (power_watts / rated_power) * 1000 truncates to the same integer as
\* the exact quotient, which is what TruncDiv computes.
CalcPowers == {-24000, -5015, -15, 0, 15, 5000, 5015, 24000}
CalcReadings == {NoReading, <<10000>>, <<6000>>, <<3>>, <<0>>, <<-20000>>}

CalcStart(c) == StartWith(c, CalcPowers, CalcReadings)

NextCalc ==
    \/ CalcStart(First)
    \/ SetupWriteDone(First)
    \/ ResetWriteDone(First)

\* start_battery_control over the inputs above, called by one caller
SpecCalc == Init /\ [][NextCalc]_vars

\* ------------------------------------------------------------------ claims
\* C1: when a setup write of a Start fails, the manager issues both reset writes
\* (0x044C,0) and (0x0455,0) afterwards, and the session is Idle (not active, no
\* end time) when the Start returns its error.
StartFailureResets ==
    \A i \in DOMAIN out :
        (out[i].k = "ret" /\ out[i].op = "Start" /\ out[i].err = "write")
            => /\ out[i].resets = Len(reset_registers)
               /\ ~control_active
               /\ control_end_time = NoTime

\* C2: when a Stop called on an Active session returns, the session is Idle (not
\* active, end time cleared), whether its reset writes succeeded or failed.
StopEndsIdle ==
    \A i \in DOMAIN out :
        (out[i].k = "ret" /\ out[i].op = "Stop" /\ out[i].ctx = "top")
            => /\ ~control_active
               /\ control_end_time = NoTime

\* C3: no Start or Stop invocation (a caller's, or the deadline timer's Stop) has a
\* register write of another invocation issued between two of its own writes.
NoInterleavedWrites ==
    \A p \in Callers \cup AutoStops : task[p].others # "between"

\* C4: at most one watchdog task and at most one deadline task are live (created,
\* neither finished nor cancelled) in every reachable state.
LiveWatchdogs == {w \in Watchdogs : task[w].pc \in {"new", "sleep", "ping_w"}}
LiveAutoStops == {a \in AutoStops : task[a].pc \in {"new", "sleep", "stop_w"}}

OneTimerOfEachKind ==
    /\ Cardinality(LiveWatchdogs) <= 1
    /\ Cardinality(LiveAutoStops) <= 1

\* C5: when the deadline of a session elapses while a caller's Stop of that session
\* is in progress (or the other way round), the reset sequence is issued once: the
\* deadline task and the caller are never both inside the reset sequence of the
\* same session.
DeadlineRaceResetsOnce ==
    \A a \in AutoStops : \A c \in Callers :
        ~ /\ task[a].pc = "stop_w" /\ task[a].sess = a[2]
          /\ task[c].pc = "stop_w" /\ task[c].op = "Stop" /\ task[c].sess = a[2]

\* C6: a Start called on an Idle session whose writes all succeed issues its five
\* setup writes with no write of another invocation between them; the session is
\* not active while the Start still awaits a setup write, and when the Start
\* returns the session is active and ends at now + duration_minutes.
StartFromIdleWritesFive ==
    /\ \A c \in Callers :
           (task[c].op = "Start" /\ task[c].ctx = "none" /\ task[c].pc = "set_w")
               => /\ ~control_active
                  /\ task[c].others # "between"
                  /\ Awaited(task[c]) =
                         << <<REG_REMOTE_MODE, 1>>, <<REG_BATTERY_SIDE, 1>>,
                            <<REG_POWER_PRIORITY, 2>>, <<REG_WATCHDOG, 300>>,
                            <<REG_BATTERY_POWER, task[c].pct>> >>[task[c].k]
    /\ \A i \in DOMAIN out :
           (out[i].k = "ret" /\ out[i].op = "Start" /\ out[i].o = "ok"
                /\ out[i].ctx = "none")
               => /\ out[i].others # "between"
                  /\ control_active
                  /\ control_end_time = now + out[i].dur

\* round(): the integer nearest to a / b, a tie going to the even one  (b > 0)
RoundDiv(a, b) ==
    LET q == a \div b
        r == a % b
    IN  IF 2 * r < b THEN q
        ELSE IF 2 * r > b THEN q + 1
        ELSE IF q % 2 = 0 THEN q ELSE q + 1

\* C7: for power_watts in [-24000, 24000] and a positive rated power, the value a
\* Start writes to register 0x0455 is round(power_watts / rated * 1000) clamped to
\* [-1200, 1200].
SetpointIsRounded ==
    \A c \in Callers :
        (task[c].pc = "set_w" /\ task[c].k = Len(registers(0)) /\ task[c].rated > 0)
            => Awaited(task[c]) =
                   <<REG_BATTERY_POWER, Clamp(RoundDiv(task[c].pw * 1000, task[c].rated))>>

\* C8: a Stop called on an Idle session changes nothing: no register write is
\* issued and no task is cancelled or otherwise touched, control_active,
\* control_end_time, watchdog_task and the indicator values stay as they are, and
\* the call returns normally in the same step.
StopOnIdle(c) ==
    /\ task[c].pc = "idle"
    /\ ~control_active
    /\ Len(out') > 0
    /\ out'[1] = [k |-> "call", p |-> c, op |-> "Stop", active |-> FALSE,
                  after |-> stopped]

StopOnIdleChangesNothing ==
    [][\A c \in Callers :
          StopOnIdle(c)
              => /\ UNCHANGED <<control_active, control_end_time, watchdog_task,
                               virtual_entities, task, now>>
                 /\ Len(out') = 2
                 /\ out'[2].k = "ret" /\ out'[2].p = c /\ out'[2].o = "ok"]_vars

\* a Stop on an Idle session has returned while the deadline task of an earlier
\* session still sleeps
StopOnIdleSeen ==
    /\ Len(out) = 2
    /\ out[1].k = "call" /\ out[1].op = "Stop" /\ ~out[1].active
    /\ out[2].k = "ret" /\ out[2].o = "ok"
    /\ ~control_active
    /\ \E a \in AutoStops : task[a].pc = "sleep"

\* C9: of two Stop calls made one after the other with no Start in between, the
\* second finds the session Idle and issues no write, whether or not the writes of
\* the first succeeded.
SecondStopFindsIdle ==
    \A i \in DOMAIN out :
        (out[i].k = "call" /\ out[i].op = "Stop" /\ out[i].after)
            => /\ ~out[i].active
               /\ task[out[i].p].pc # "stop_w"

\* C10: a Stop returns normally to its caller whatever the outcome of its reset
\* writes and of its indicator updates.
StopReturnsNormally ==
    \A i \in DOMAIN out :
        (out[i].k = "ret" /\ out[i].op = "Stop") => out[i].o = "ok"

\* a Stop has returned after a reset write failed or an indicator update raised
StopReturnedAfterFailure ==
    \E i \in DOMAIN out :
        /\ out[i].k = "ret" /\ out[i].op = "Stop" /\ out[i].o = "ok"
        /\ out[i].fault \in {"reset", "entity"}

\* the timer tasks created so far
Spawned == {q \in Watchdogs \cup AutoStops : task[q].pc # "unborn"}

\* this step is one of coroutine c: it moved on to another await or returned
OwnStep(c) == <<task'[c].pc, task'[c].k>> # <<task[c].pc, task[c].k>>

\* C11: when a setup write of a Start fails, the Start issues no further setup
\* write (it only runs the reset sequence of its internal Stop, or returns), it
\* creates no watchdog and no deadline task, and what it returns to its caller is
\* the error of the failed write, also when the internal Stop failed as well.
FailedSetupAborts ==
    [][/\ \A c \in Callers :
              (task[c].op = "Start" /\ OwnStep(c) /\ task'[c].err = "write")
                  => /\ task'[c].pc = "stop_w" /\ task'[c].ctx = "exc"
                     /\ Spawned' = Spawned
       /\ \A i \in DOMAIN out' :
              (out'[i].k = "ret" /\ out'[i].op = "Start"
                   /\ (out'[i].err = "write" \/ out'[i].fault = "setup"))
                  => /\ out'[i].o = "error" /\ out'[i].err = "write"
                     /\ task[out'[i].p].pc \in {"set_w", "stop_w"}
                     /\ Spawned' = Spawned]_vars

\* a Start whose setup write failed has returned its error after a reset write of
\* its internal Stop failed too
FailedSetupReturned ==
    \E i \in DOMAIN out :
        /\ out[i].k = "ret" /\ out[i].op = "Start" /\ out[i].o = "error"
        /\ out[i].err = "write" /\ out[i].fault = "reset"

\* C12: when a Start whose setup write failed has returned, the indicators that
\* are registered are reset: "Manual Control Active" is False and "Manual Battery
\* Power" is 0.
FailedStartResetsIndicators ==
    \A i \in DOMAIN out :
        (out[i].k = "ret" /\ out[i].op = "Start" /\ out[i].err = "write")
            => /\ POWER_ENTITY \in DOMAIN virtual_entities
                    => virtual_entities[POWER_ENTITY] = 0
               /\ ACTIVE_ENTITY \in DOMAIN virtual_entities
                    => virtual_entities[ACTIVE_ENTITY] = FALSE

\* C13: a session opened by a successful Start is Idle at the latest when its
\* deadline task has run: once the deadline task of the current session has
\* finished and no call is in progress, the session is not active and has no end
\* time, also when the reset writes the deadline task issued failed.
DeadlineEndsSession ==
    \A a \in AutoStops :
        (/\ task[a].pc = "done"
         /\ watchdog_task = <<"wd", a[2]>>
         /\ \A c \in Callers : task[c].pc = "idle")
            => /\ ~control_active
               /\ control_end_time = NoTime

\* C14: a session is ended by its own deadline only: when a deadline task begins
\* the Stop sequence, the session it stops is the one that created it, or that
\* session's end time is reached; the deadline task of an earlier session never
\* stops a later session before the later one's end time.
OwnDeadlineOnly ==
    [][\A a \in AutoStops :
          (task[a].pc = "sleep" /\ task'[a].pc = "stop_w")
              => \/ watchdog_task = <<"wd", a[2]>>
                 \/ now >= control_end_time]_vars

\* C15: once a Stop sequence has written (0x044C,0), no watchdog task issues its
\* refresh write (0x044C,1) until a Start has begun its setup sequence: a watchdog
\* task never issues the refresh while the value last written to 0x044C is 0.
NoRefreshAfterStop ==
    [][\A w \in Watchdogs :
          (task[w].pc = "sleep" /\ task'[w].pc = "ping_w") => remote_mode # 0]_vars

\* C16: whenever the session is active and no Start or Stop sequence is in
\* progress, exactly one watchdog task is live, it is the one the manager holds,
\* and the value last written to register 0x044C is 1.
ActiveHasWatchdog ==
    (/\ control_active
     /\ \A p \in Callers \cup AutoStops : ~InBody(task[p]))
        => /\ LiveWatchdogs = {watchdog_task}
           /\ remote_mode = 1

\* the sleep of watchdog task w is over while the session is active
WatchdogTick(w) ==
    /\ task[w].pc = "sleep"
    /\ task'[w].pc \notin {"sleep", "cancelled"}
    /\ control_active

\* the device answers the refresh write of watchdog task w (or the write fails)
WatchdogAnswered(w) ==
    /\ task[w].pc = "ping_w"
    /\ task'[w].pc \notin {"ping_w", "cancelled"}

\* C17: a watchdog tick while the session is active issues one register write,
\* (0x044C,1), and nothing else: no other task moves, control_active and
\* control_end_time stay as they are, and when the write is answered the task
\* only goes back to sleep (or ends) without a further write.
TickWritesOnce ==
    [][\A w \in Watchdogs :
          /\ WatchdogTick(w)
                => /\ task'[w].pc = "ping_w"
                   /\ Awaited(task'[w]) = <<REG_REMOTE_MODE, 1>>
                   /\ remote_mode' = 1
                   /\ \A q \in Procs \ {w} : task'[q] = task[q]
                   /\ UNCHANGED <<control_active, control_end_time>>
          /\ WatchdogAnswered(w)
                => /\ task'[w].pc \in {"sleep", "done"}
                   /\ \A q \in Procs \ {w} : task'[q] = task[q]
                   /\ UNCHANGED <<control_active, control_end_time, remote_mode>>]_vars

\* the second tick of a session: its watchdog task awaits the refresh write at
\* minute 8
SecondTickSeen ==
    \E w \in Watchdogs :
        /\ task[w].pc = "ping_w"
        /\ w = watchdog_task
        /\ control_active
        /\ now = 2 * WatchdogPeriod

\* C18: a refresh write that fails ends neither the session nor the refresh loop:
\* when the refresh of a watchdog task is answered, with success or with a
\* failure, control_active and control_end_time stay as they are, nothing is
\* returned or raised to a caller, and the task sleeps for the next tick as long
\* as the session is active and before its end time.
RefreshFailureRetried ==
    [][\A w \in Watchdogs :
          WatchdogAnswered(w)
              => /\ UNCHANGED <<control_active, control_end_time>>
                 /\ out' = <<>>
                 /\ \A c \in Callers : task'[c] = task[c]
                 /\ IF control_active /\ now < control_end_time
                    THEN /\ task'[w].pc = "sleep"
                         /\ task'[w].wake = now + WatchdogPeriod
                    ELSE task'[w].pc = "done"]_vars

\* a refresh is attempted at the tick after one that failed, the session active
RefreshRetried ==
    \E w \in Watchdogs :
        /\ task[w].pc = "ping_w"
        /\ task[w].err = "ping"
        /\ control_active

\* C19: when the cached rated-power reading is absent, zero or negative, a Start
\* computes with 20000: it does not fail on the division, and the value it writes
\* to register 0x0455 is the percentage of power_watts over 20000, with the sign
\* of power_watts.
RatedFallback ==
    /\ \A i \in DOMAIN out :
           ~(out[i].k = "ret" /\ out[i].op = "Start" /\ out[i].err = "div")
    /\ \A c \in Callers :
           (/\ task[c].pc = "set_w"
            /\ task[c].k = Len(registers(0))
            /\ (task[c].rdata = NoReading \/ task[c].rdata[1] <= 0))
               => Awaited(task[c]) =
                      <<REG_BATTERY_POWER,
                        power_percentage(task[c].pw, DEFAULT_RATED_POWER)>>

\* the control registers
ControlRegisters ==
    {REG_REMOTE_MODE, REG_BATTERY_SIDE, REG_POWER_PRIORITY, REG_WATCHDOG,
     REG_BATTERY_POWER}

\* C20: the manager is the only writer of the control registers: every write to
\* one of them in flight was issued by a Start, a Stop (a caller's or the
\* deadline's) or a watchdog refresh of the manager, and no task outside the
\* manager has a write of 0 to 0x044C in flight while the manager's session is
\* active.
ManagerIsSoleWriter ==
    /\ \A p \in Procs :
           Awaited(task[p])[1] \in ControlRegisters
               => p \in Callers \cup Watchdogs \cup AutoStops
    /\ \A p \in Procs \ (Callers \cup Watchdogs \cup AutoStops) :
           control_active => Awaited(task[p]) # <<REG_REMOTE_MODE, 0>>

====
